---- MODULE Spec2Model ----
(***************************************************************************)
(* Model of donkeycar/parts/controller.py: the Joystick event decoder     *)
(* (Joystick.init, Joystick.poll) and the JoystickController worker loop   *)
(* (init_js, update, on_throttle_changes, shutdown).                       *)
(*                                                                         *)
(* Floats are fixed-point integers.  The scales steering_scale,            *)
(* throttle_scale and max_throttle count units of 1/Unit, so that          *)
(* round(x, 2) is a real rounding to a multiple of Unit/100.  An axis      *)
(* value is the raw signed 16-bit reading, standing for value / AxisDiv.   *)
(* angle is a numerator over Unit * AxisDiv, throttle a numerator over     *)
(* Unit * Unit * AxisDiv.                                                  *)
(***************************************************************************)
EXTENDS Integers, Sequences, FiniteSets, TLC

VARIABLES
    pc,                      \* position of the worker inside update()
    pos,                     \* number of reads made on the device stream
    closed,                  \* the device stream is at its end
    running, js,
    angle, throttle, mode, recording,
    steering_scale, throttle_scale, max_throttle, constant_throttle,
    auto_record_on_throttle, steering_axis, throttle_axis,
    axis_map, button_map, axis_states, button_states,
    typev,                   \* eventType of the record poll() unpacked last
    button, button_state, axis, axis_val,
    \* history variables: the max_throttle the controller was constructed
    \* with, and how many r1 and l1 presses the loop body has processed
    max_throttle0, n_up, n_down,
    \* history variable: the number of reads made when shutdown() was called
    stopped_at,
    \* the tuple run_threaded() returned last to the thread that called it
    snap

ctrl == <<angle, throttle, mode, recording,
          steering_scale, throttle_scale, max_throttle, constant_throttle>>
config == <<auto_record_on_throttle, steering_axis, throttle_axis>>
maps == <<axis_map, button_map>>
caches == <<axis_states, button_states>>
locals == <<typev, button, button_state, axis, axis_val>>
hist == <<max_throttle0, n_up, n_down, stopped_at>>
vars == <<pc, pos, closed, running, js, ctrl, config, maps, caches, locals, hist,
          snap>>

----------------------------------------------------------------------------
(* Bounds of the model *)

MaxEvents == 2
MaxPresses == 5

(* Number representation *)

Unit == 200
AxisDiv == 32767
Step05 == Unit \div 20
Step01 == Unit \div 100
One == Unit
None == "None"
NoTypev == -1
NotStopped == -1
NoSnap == << >>

Min(a, b) == IF a < b THEN a ELSE b
Max(a, b) == IF a > b THEN a ELSE b

\* the direction in which round() resolves a value halfway between two
\* 2-decimal numbers; it depends on the binary representation error
Ties == {-1, 1}

Round1(x, tie) == IF x % (10 * Step01) = 0 THEN x ELSE x - (x % (10 * Step01))

\* round(x, 2)
Round2(x, tie) == IF x % Step01 = 0 THEN x ELSE x + tie

FromScaleOne(m) == One * Unit * AxisDiv

\* a scale value (max_throttle) stored into throttle
FromScale(m) == m * Unit * AxisDiv

----------------------------------------------------------------------------
(* Joystick *)

axis_names ==
    (0 :> "lx") @@ (1 :> "ly") @@ (2 :> "l2") @@ (3 :> "rx") @@
    (4 :> "ry") @@ (5 :> "r2") @@ (16 :> "dpadx") @@ (17 :> "dpady")

button_names ==
    (304 :> "cross") @@ (305 :> "circle") @@ (307 :> "triangle") @@
    (308 :> "square") @@ (310 :> "l1") @@ (311 :> "r1") @@ (312 :> "l2") @@
    (313 :> "r2") @@ (314 :> "share") @@ (315 :> "options") @@ (316 :> "ps") @@
    (317 :> "thumbl") @@ (318 :> "thumbr")

\* self.axis_names.get(axis, 'unknown(0x%02x)' % axis)
AxisName(code) ==
    IF code \in DOMAIN axis_names THEN axis_names[code] ELSE "unknown_axis"

\* self.button_names.get(btn, 'unknown(0x%03x)' % btn)
ButtonName(code) ==
    IF code \in DOMAIN button_names THEN button_names[code] ELSE "unknown_button"

\* what the device reports to JSIOCGAXMAP / JSIOCGBTNMAP
DeviceAxes == <<1, 3, 16, 17>>
DeviceButtons == <<304, 305, 307, 310, 311, 312, 313, 315, 306>>

InitAxisMap == [i \in 1..Len(DeviceAxes) |-> AxisName(DeviceAxes[i])]
InitButtonMap == [i \in 1..Len(DeviceButtons) |-> ButtonName(DeviceButtons[i])]

Range(s) == {s[i] : i \in DOMAIN s}

\* raw records of the device stream: struct 'IhBB' without the timestamp
\* (typev bits: 0x01 button, 0x02 axis, 0x80 init)
\* with an index up to one past the end of the button / axis table
ButtonValues == {0, 1}
AxisValues == {-32768, 0, 32767}
BothValues == {-32768, 0, 1}
Numbers == 0..Len(DeviceButtons)
AxisNumbers == 0..Len(DeviceAxes)
Records ==
    [typev : {1}, number : Numbers, value : ButtonValues]
    \cup [typev : {2}, number : AxisNumbers, value : AxisValues]
    \cup [typev : {3}, number : Numbers, value : BothValues]
    \cup [typev : {128, 129, 130}, number : Numbers, value : {1}]
    \cup [typev : {0}, number : {0}, value : {1}]

Bit(t, b) == (t \div b) % 2 = 1

PollResultNoInitCheck(rec, bmap, amap, bstates, astates) ==
    LET b == IF rec.number < Len(bmap) THEN bmap[rec.number + 1] ELSE None
    IN [button |-> b, button_state |-> rec.value, axis |-> None, axis_val |-> None,
        button_states |-> IF b # None THEN [bstates EXCEPT ![b] = rec.value] ELSE bstates,
        axis_states |-> astates, raised |-> FALSE]

\* the outcome of Joystick.poll on one 8-byte record, as a record of
\* the returned tuple, the updated caches and whether it raised IndexError
PollResult(rec, bmap, amap, bstates, astates) ==
    IF Bit(rec.typev, 128)
    THEN [button |-> None, button_state |-> None, axis |-> None, axis_val |-> None,
          button_states |-> bstates, axis_states |-> astates, raised |-> FALSE]
    ELSE
      LET isb == Bit(rec.typev, 1)
          isa == Bit(rec.typev, 2)
          bok == rec.number < Len(bmap)
          aok == rec.number < Len(amap)
          b == IF isb /\ bok THEN bmap[rec.number + 1] ELSE None
          a == IF isa /\ aok THEN amap[rec.number + 1] ELSE None
          bst1 == IF isb /\ bok THEN [bstates EXCEPT ![b] = rec.value] ELSE bstates
          araise == isa /\ ~aok
          braise == isb /\ ~bok
          ast1 == IF isa /\ aok /\ ~braise
                  THEN [astates EXCEPT ![a] = rec.value] ELSE astates
      IN [button |-> b,
          button_state |-> IF isb /\ bok THEN rec.value ELSE None,
          axis |-> IF braise THEN None ELSE a,
          axis_val |-> IF isa /\ aok /\ ~braise THEN rec.value ELSE None,
          button_states |-> bst1, axis_states |-> ast1,
          raised |-> braise \/ araise]

----------------------------------------------------------------------------
(* JoystickController *)

\* constructor arguments <<steering_scale, throttle_scale, max_throttle>>:
\* the defaults, values that are no multiple of 0.01, and scales outside
\* the ranges the dpad clamps to
Configs == {<<200, -200, 200>>, <<67, -67, 67>>, <<-200, 100, 60>>}

\* the state after construction with arguments drawn from cfgs
InitWith(cfgs) ==
    /\ pc = "connect"
    /\ pos = 0
    /\ closed = FALSE
    /\ running = TRUE
    /\ js = None
    /\ angle = 0
    /\ throttle = 0
    /\ mode = "user"
    /\ recording = FALSE
    /\ constant_throttle = FALSE
    /\ \E c \in cfgs :
          /\ steering_scale = c[1]
          /\ throttle_scale = c[2]
          /\ max_throttle = c[3]
          /\ max_throttle0 = c[3]
    /\ n_up = 0
    /\ n_down = 0
    /\ stopped_at = NotStopped
    /\ snap = NoSnap
    /\ auto_record_on_throttle \in BOOLEAN
    /\ steering_axis = "rx"
    /\ throttle_axis = "ly"
    /\ axis_map = << >>
    /\ button_map = << >>
    /\ axis_states = << >>
    /\ button_states = << >>
    /\ typev = NoTypev
    /\ button = None
    /\ button_state = None
    /\ axis = None
    /\ axis_val = None

Init == InitWith(Configs)

on_throttle_changes_always(rec, thr, md) == (thr # 0 /\ md = "user")

on_throttle_changes_positive(rec, thr, md) ==
    IF auto_record_on_throttle THEN (thr > 0 /\ md = "user") ELSE rec

\* on_throttle_changes: the value of self.recording after the call
on_throttle_changes(rec, thr, md) ==
    IF auto_record_on_throttle THEN (thr # 0 /\ md = "user") ELSE rec

\* init_js succeeds: Joystick.init opens the device and builds the maps
InitJsOk ==
    /\ pc = "connect"
    /\ running
    /\ js' = "Joystick"
    /\ axis_map' = InitAxisMap
    /\ button_map' = InitButtonMap
    /\ axis_states' = [n \in Range(InitAxisMap) |-> 0]
    /\ button_states' = [n \in Range(InitButtonMap) |-> 0]
    /\ pc' = "loop"
    /\ UNCHANGED <<pos, closed, running, ctrl, config, locals, hist, snap>>

InitJsFailGiveUp ==
    /\ pc = "connect"
    /\ running
    /\ js' = None
    /\ pc' = "done"
    /\ UNCHANGED <<pos, closed, running, ctrl, config, maps, caches, locals, hist, snap>>

\* init_js fails with FileNotFoundError: js stays None, time.sleep(5)
InitJsFail ==
    /\ pc = "connect"
    /\ running
    /\ js' = None
    /\ pc' = "retry"
    /\ UNCHANGED <<pos, closed, running, ctrl, config, maps, caches, locals, hist, snap>>

\* the sleep is over, the first while loop tests its condition again
Retry ==
    /\ pc = "retry"
    /\ pc' = "connect"
    /\ UNCHANGED <<pos, closed, running, js, ctrl, config, maps, caches, locals, hist, snap>>

\* what poll() does with a full 8-byte record, and where update() goes on
PollOutcome(rec) ==
    /\ LET r == PollResult(rec, button_map, axis_map, button_states, axis_states)
       IN /\ button_states' = r.button_states
          /\ axis_states' = r.axis_states
          /\ typev' = rec.typev
          /\ IF r.raised
             THEN /\ pc' = "crashed"
                  /\ UNCHANGED <<button, button_state, axis, axis_val>>
             ELSE /\ pc' = "apply"
                  /\ button' = r.button
                  /\ button_state' = r.button_state
                  /\ axis' = r.axis
                  /\ axis_val' = r.axis_val
    /\ pos' = pos + 1
    /\ UNCHANGED <<closed, running, js, ctrl, config, maps, hist, snap>>

\* the test of `while self.running:` and self.js.poll() on a full record
ReadRecord(rec) ==
    /\ pc = "loop"
    /\ running
    /\ ~closed
    /\ PollOutcome(rec)

Poll ==
    /\ pos < MaxEvents
    /\ \E rec \in Records : ReadRecord(rec)

\* self.js.poll() at the end of the stream: read(8) returns no bytes and
\* poll returns (None, None, None, None)
PollEOF ==
    /\ pc = "loop"
    /\ running
    /\ pos < MaxEvents
    /\ closed' = TRUE
    /\ typev' = NoTypev
    /\ button' = None
    /\ button_state' = None
    /\ axis' = None
    /\ axis_val' = None
    /\ pc' = "apply"
    /\ pos' = pos + 1
    /\ UNCHANGED <<running, js, ctrl, config, maps, caches, hist, snap>>

PressedOrReleased(b) == button = b

\* `button == b and button_state == 1`
Pressed(b) == button = b /\ button_state = 1

\* self.angle = self.steering_scale * axis_val
SteeringAngle(ss, v) == ss * v

ThrottleValueNoMax(ts, v, mt) == ts * v * One

\* self.throttle = (self.throttle_scale * axis_val * self.max_throttle)
ThrottleValue(ts, v, mt) == ts * v * mt

NextMode(m) ==
    IF m = "user" THEN "local_angle"
    ELSE IF m = "local_angle" THEN "local"
    ELSE "user"

ToggleRecordingAlways(rec) == IF rec THEN FALSE ELSE TRUE

\* the 'circle' handler: the value of self.recording after it
ToggleRecording(rec) ==
    IF auto_record_on_throttle THEN rec
    ELSE IF rec THEN FALSE ELSE TRUE

ScaleUpNoCap(s, step, cap, tie) == Round2(s + step, tie)
ScaleDownNoFloor(s, step, floor, tie) == Round2(s - step, tie)

\* round(min(cap, s + step), 2) and round(max(floor, s - step), 2)
ScaleUp(s, step, cap, tie) == Round2(Min(cap, s + step), tie)
ScaleDown(s, step, floor, tie) == Round2(Max(floor, s - step), tie)

ToggledThrottleStale(ct, mt) == FromScale(mt)

\* the 'triangle' handler: the value of self.throttle after it
ToggledThrottle(ct, mt) == IF ct THEN 0 ELSE FromScale(mt)

\* the body of the polling loop after poll() returned, up to time.sleep
Apply ==
    /\ pc = "apply"
    /\ \E tieA \in Ties, tieB \in Ties :
        LET angle1 == IF axis = steering_axis
                      THEN SteeringAngle(steering_scale, axis_val) ELSE angle
            thr1 == IF axis = throttle_axis
                    THEN ThrottleValue(throttle_scale, axis_val, max_throttle)
                    ELSE throttle
            rec1 == IF axis = throttle_axis
                    THEN on_throttle_changes(recording, thr1, mode) ELSE recording
            ss1 == IF axis = "dpadx" /\ axis_val # 0
                   THEN IF axis_val > 0
                        THEN ScaleUp(steering_scale, Step05, One, tieA)
                        ELSE ScaleDown(steering_scale, Step05, 0, tieA)
                   ELSE steering_scale
            ts1 == IF axis = "dpady" /\ axis_val # 0
                   THEN IF axis_val < 0
                        THEN ScaleDown(throttle_scale, Step05, -One, tieA)
                        ELSE ScaleUp(throttle_scale, Step05, 0, tieA)
                   ELSE throttle_scale
            mode1 == IF Pressed("option") THEN NextMode(mode) ELSE mode
            rec2 == IF Pressed("circle") THEN ToggleRecording(rec1) ELSE rec1
            mt1 == IF Pressed("r1")
                   THEN ScaleUp(max_throttle, Step01, One, tieB) ELSE max_throttle
            thr2 == IF Pressed("r1") /\ constant_throttle
                    THEN FromScale(mt1) ELSE thr1
            rec3 == IF Pressed("r1") /\ constant_throttle
                    THEN on_throttle_changes(rec2, thr2, mode1) ELSE rec2
            mt2 == IF Pressed("l1")
                   THEN ScaleDown(mt1, Step01, 0, tieB) ELSE mt1
            thr3 == IF Pressed("l1") /\ constant_throttle
                    THEN FromScale(mt2) ELSE thr2
            rec4 == IF Pressed("l1") /\ constant_throttle
                    THEN on_throttle_changes(rec3, thr3, mode1) ELSE rec3
            ts2 == IF Pressed("r2")
                   THEN ScaleUp(ts1, Step05, 0, tieB) ELSE ts1
            ts3 == IF Pressed("l2")
                   THEN ScaleDown(ts2, Step05, -One, tieB) ELSE ts2
            ct1 == IF Pressed("triangle") THEN ~constant_throttle
                   ELSE constant_throttle
            thr4 == IF Pressed("triangle")
                    THEN ToggledThrottle(constant_throttle, mt2) ELSE thr3
            rec5 == IF Pressed("triangle")
                    THEN on_throttle_changes(rec4, thr4, mode1) ELSE rec4
        IN /\ angle' = angle1
           /\ throttle' = thr4
           /\ recording' = rec5
           /\ steering_scale' = ss1
           /\ throttle_scale' = ts3
           /\ mode' = mode1
           /\ max_throttle' = mt2
           /\ constant_throttle' = ct1
    /\ n_up' = IF Pressed("r1") THEN n_up + 1 ELSE n_up
    /\ n_down' = IF Pressed("l1") THEN n_down + 1 ELSE n_down
    /\ pc' = "loop"
    /\ UNCHANGED <<pos, closed, running, js, config, maps, caches, locals,
                   max_throttle0, stopped_at, snap>>

\* the while conditions see self.running == False: update() returns
Exit ==
    /\ pc \in {"connect", "loop"}
    /\ ~running
    /\ pc' = "done"
    /\ UNCHANGED <<pos, closed, running, js, ctrl, config, maps, caches, locals, hist, snap>>

\* shutdown(), called from another thread
Shutdown ==
    /\ running
    /\ running' = FALSE
    /\ stopped_at' = pos
    /\ UNCHANGED <<pc, pos, closed, js, ctrl, config, maps, caches, locals,
                   max_throttle0, n_up, n_down, snap>>

Next ==
    \/ InitJsOk
    \/ InitJsFail
    \/ Retry
    \/ Poll
    \/ PollEOF
    \/ Apply
    \/ Exit
    \/ Shutdown

Spec == Init /\ [][Next]_vars

----------------------------------------------------------------------------
(* The controller driven by the max-throttle and constant-throttle buttons *)
(* and the throttle axis only, constructed with a max_throttle in          *)
(* [0.0, 1.0] that is a multiple of 0.01                                   *)

KeyConfigs == {<<200, -200, 0>>, <<200, -200, 6>>, <<200, -200, 196>>}

KeyButtons == {"l1", "r1", "triangle"}

KeyRecords ==
    {rec \in Records :
        \/ /\ rec.typev = 1
           /\ rec.number < Len(InitButtonMap)
           /\ InitButtonMap[rec.number + 1] \in KeyButtons
        \/ /\ rec.typev = 2
           /\ rec.number < Len(InitAxisMap)
           /\ InitAxisMap[rec.number + 1] = "ly"
           /\ rec.value # 0}

InitKeys == InitWith(KeyConfigs)

PollKeys ==
    /\ pos < MaxPresses
    /\ \E rec \in KeyRecords : ReadRecord(rec)

NextKeys ==
    \/ InitJsOk
    \/ PollKeys
    \/ Apply
    \/ Exit
    \/ Shutdown

SpecKeys == InitKeys /\ [][NextKeys]_vars

----------------------------------------------------------------------------
(* The worker thread statement by statement, with the threads that call    *)
(* run_threaded() and shutdown(): the test of the while condition and the  *)
(* blocking read are two steps, and so is every assignment of the handlers *)
(* of the throttle axis (lines 236-240) and of 'triangle' (lines 332-344), *)
(* the only ones that the records of ThreadRecords make the loop body run  *)

MaxReads == 2

ThreadRecords ==
    {rec \in Records :
        \/ /\ rec.typev = 1
           /\ rec.number < Len(InitButtonMap)
           /\ InitButtonMap[rec.number + 1] = "triangle"
        \/ /\ rec.typev = 2
           /\ rec.number < Len(InitAxisMap)
           /\ InitAxisMap[rec.number + 1] = "ly"}

LoopTestNoFlag ==
    /\ pc = "loop"
    /\ pos < MaxReads
    /\ pc' = "read"
    /\ UNCHANGED <<pos, closed, running, js, ctrl, config, maps, caches, locals, hist, snap>>

\* `while self.running:` finds the flag set: poll() is called and blocks in
\* self.jsdev.read(8)
LoopTest ==
    /\ pc = "loop"
    /\ running
    /\ pos < MaxReads
    /\ pc' = "read"
    /\ UNCHANGED <<pos, closed, running, js, ctrl, config, maps, caches, locals, hist, snap>>

\* the blocking read returns a record
ReadReturns ==
    /\ pc = "read"
    /\ \E rec \in ThreadRecords : PollOutcome(rec)

\* line 238: self.throttle = (self.throttle_scale * axis_val * self.max_throttle)
AssignThrottle ==
    /\ pc = "apply"
    /\ axis = throttle_axis
    /\ throttle' = ThrottleValue(throttle_scale, axis_val, max_throttle)
    /\ pc' = "axis_changes"
    /\ UNCHANGED <<angle, mode, recording, steering_scale, throttle_scale,
                   max_throttle, constant_throttle>>
    /\ UNCHANGED <<pos, closed, running, js, config, maps, caches, locals, hist, snap>>

\* line 240: self.on_throttle_changes()
AxisThrottleChanges ==
    /\ pc = "axis_changes"
    /\ recording' = on_throttle_changes(recording, throttle, mode)
    /\ pc' = "buttons"
    /\ UNCHANGED <<angle, throttle, mode, steering_scale, throttle_scale,
                   max_throttle, constant_throttle>>
    /\ UNCHANGED <<pos, closed, running, js, config, maps, caches, locals, hist, snap>>

\* a record without an axis: none of the tests of lines 232-265 is true
NoAxis ==
    /\ pc = "apply"
    /\ axis = None
    /\ pc' = "buttons"
    /\ UNCHANGED <<pos, closed, running, js, ctrl, config, maps, caches, locals, hist, snap>>

\* lines 337 and 341: self.constant_throttle = False / True
ToggleConstant ==
    /\ pc = "buttons"
    /\ Pressed("triangle")
    /\ constant_throttle' = ~constant_throttle
    /\ pc' = "toggle_throttle"
    /\ UNCHANGED <<angle, throttle, mode, recording, steering_scale,
                   throttle_scale, max_throttle>>
    /\ UNCHANGED <<pos, closed, running, js, config, maps, caches, locals, hist, snap>>

\* lines 338 and 342: self.throttle = 0 / self.throttle = self.max_throttle
AssignToggled ==
    /\ pc = "toggle_throttle"
    /\ throttle' = ToggledThrottle(~constant_throttle, max_throttle)
    /\ pc' = "toggle_changes"
    /\ UNCHANGED <<angle, mode, recording, steering_scale, throttle_scale,
                   max_throttle, constant_throttle>>
    /\ UNCHANGED <<pos, closed, running, js, config, maps, caches, locals, hist, snap>>

\* lines 339 and 343: self.on_throttle_changes(), then time.sleep
ToggleThrottleChanges ==
    /\ pc = "toggle_changes"
    /\ recording' = on_throttle_changes(recording, throttle, mode)
    /\ pc' = "loop"
    /\ UNCHANGED <<angle, throttle, mode, steering_scale, throttle_scale,
                   max_throttle, constant_throttle>>
    /\ UNCHANGED <<pos, closed, running, js, config, maps, caches, locals, hist, snap>>

\* no button, or a release of 'triangle': none of the tests of lines
\* 268-344 is true
NoButton ==
    /\ pc = "buttons"
    /\ button \in {None, "triangle"}
    /\ ~Pressed("triangle")
    /\ pc' = "loop"
    /\ UNCHANGED <<pos, closed, running, js, ctrl, config, maps, caches, locals, hist, snap>>

\* run_threaded(), called from another thread: the tuple it returns
RunThreaded ==
    /\ snap' = <<angle, throttle, mode, recording>>
    /\ snap' # snap
    /\ UNCHANGED <<pc, pos, closed, running, js, ctrl, config, maps, caches, locals, hist>>

Worker ==
    \/ InitJsOk
    \/ InitJsFail
    \/ Retry
    \/ LoopTest
    \/ ReadReturns
    \/ AssignThrottle
    \/ AxisThrottleChanges
    \/ NoAxis
    \/ ToggleConstant
    \/ AssignToggled
    \/ ToggleThrottleChanges
    \/ NoButton
    \/ Exit

NextThreads ==
    \/ Worker
    \/ RunThreaded
    \/ Shutdown

SpecThreads == Init /\ [][NextThreads]_vars

----------------------------------------------------------------------------
(* Properties *)

IsInit(t) == t >= 0 /\ Bit(t, 128)

\* the auto-record rule holds of the state
AutoRecordRule == recording = (throttle # 0 /\ mode = "user")

\* the observation being applied changes throttle: a throttle-axis move, a
\* max-throttle press under constant throttle, a constant-throttle toggle
ThrottleOp ==
    \/ axis = throttle_axis
    \/ (Pressed("r1") \/ Pressed("l1")) /\ constant_throttle
    \/ Pressed("triangle")

\* C1: with auto_record_on_throttle enabled, right after the loop body has
\* processed an observation that changed throttle or mode (a throttle-axis
\* move, r1/l1 under constant throttle, a triangle press, a mode switch),
\* recording = (throttle # 0 and mode = "user").
C1_AutoRecord ==
    [][(/\ pc = "apply"
        /\ pc' = "loop"
        /\ auto_record_on_throttle
        /\ (ThrottleOp \/ Pressed("option") \/ throttle' # throttle \/ mode' # mode))
       => AutoRecordRule']_vars

C1_Witness ==
    /\ pc = "loop"
    /\ auto_record_on_throttle
    /\ axis = throttle_axis
    /\ throttle # 0
    /\ recording

\* the name the capability map gives the mode-switch button (0x13b)
ModeSwitchButton == ButtonName(315)

\* C2: every press of the mode-switch button, named by the capability map,
\* advances mode along user -> local_angle -> local -> user.
C2_ModeCycle ==
    [][(pc = "apply" /\ pc' = "loop" /\ Pressed(ModeSwitchButton))
       => mode' = NextMode(mode)]_vars

\* C3: a record with bit 0x80 set makes poll return (None, None, None, None)
\* without touching the cached axis/button values, and the loop body that
\* follows leaves the controller state and the caches unchanged.
C3_InitIgnored ==
    [][/\ (pc = "loop" /\ pos' # pos /\ IsInit(typev')) =>
             /\ pc' = "apply"
             /\ button' = None /\ button_state' = None
             /\ axis' = None /\ axis_val' = None
             /\ UNCHANGED <<ctrl, caches>>
       /\ (pc = "apply" /\ IsInit(typev)) => UNCHANGED <<ctrl, caches>>]_vars

C3_Witness ==
    /\ pc = "loop"
    /\ pos = MaxEvents
    /\ typev = 129
    /\ button = None
    /\ throttle # 0


\* C4: a press of the constant-throttle toggle ('triangle') flips
\* constant_throttle; switching it on leaves throttle = max_throttle,
\* switching it off leaves throttle = 0; the auto-record rule is applied
\* afterwards (recording is left alone when auto-record is disabled). As every
\* press flips the flag, two consecutive presses restore it.
C4_ConstantToggle ==
    [][(pc = "apply" /\ pc' = "loop" /\ Pressed("triangle")) =>
          /\ constant_throttle' = ~constant_throttle
          /\ (~constant_throttle => throttle' = max_throttle' * Unit * AxisDiv)
          /\ (constant_throttle => throttle' = 0)
          /\ (auto_record_on_throttle => AutoRecordRule')
          /\ (~auto_record_on_throttle => recording' = recording)]_vars

\* the state after the second of two presses
C4_Witness ==
    /\ pc = "loop"
    /\ pos = 2
    /\ Pressed("triangle")
    /\ ~constant_throttle
    /\ max_throttle # 0
    /\ throttle = 0

\* C5: whenever the loop body has completed and constant_throttle is on,
\* throttle = max_throttle.
C5_Latch ==
    (pc = "loop" /\ constant_throttle) => throttle = max_throttle * Unit * AxisDiv

InUnit(x) == 0 <= x /\ x <= One
InNegUnit(x) == -One <= x /\ x <= 0
IsCenti(x) == x % Step01 = 0
Abs(x) == IF x < 0 THEN -x ELSE x

\* the multiples of 0.01 nearest to x
Nearest(x) ==
    {m \in (x - Step01)..(x + Step01) : IsCenti(m) /\ 2 * Abs(m - x) <= Step01}

DpadxMoved == axis = "dpadx" /\ axis_val # 0

\* C6 as stated: for every configured steering scale, after each nonzero
\* dpadx observation steering_scale lies in [0.0, 1.0] and is a multiple
\* of 0.01.
C6_EveryBaseScale ==
    (pc = "loop" /\ DpadxMoved) => (InUnit(steering_scale) /\ IsCenti(steering_scale))

\* C6, amended: steering_scale changes only on a nonzero dpadx observation;
\* after it, it is a multiple of 0.01, it is the old value plus 0.05 capped
\* at 1.0 (value > 0) or minus 0.05 floored at 0.0 (value < 0), rounded, and
\* it lies in [0.0, 1.0] whenever it did before, hence always for a
\* configured steering scale in [0.0, 1.0].
C6_SteeringScale ==
    [][/\ (pc = "apply" /\ pc' = "loop" /\ DpadxMoved) =>
             /\ IsCenti(steering_scale')
             /\ (axis_val > 0 =>
                    /\ steering_scale' <= One
                    /\ steering_scale' \in Nearest(Min(One, steering_scale + Step05)))
             /\ (axis_val < 0 =>
                    /\ steering_scale' >= 0
                    /\ steering_scale' \in Nearest(Max(0, steering_scale - Step05)))
             /\ (InUnit(steering_scale) => InUnit(steering_scale'))
       /\ ~(pc = "apply" /\ DpadxMoved) => steering_scale' = steering_scale]_vars

\* 0.335 - 0.05 rounded to 2 decimals
C6_Witness ==
    /\ pc = "loop"
    /\ DpadxMoved
    /\ axis_val < 0
    /\ steering_scale = 58

ThrottleScaleUp == (axis = "dpady" /\ axis_val > 0) \/ Pressed("r2")
ThrottleScaleDown == (axis = "dpady" /\ axis_val < 0) \/ Pressed("l2")

\* C7 as stated: for every configured throttle scale, after each adjustment
\* (nonzero dpady, r2 or l2 press) throttle_scale lies in [-1.0, 0.0].
C7_EveryBaseScale ==
    (pc = "loop" /\ (ThrottleScaleUp \/ ThrottleScaleDown))
        => InNegUnit(throttle_scale)

\* C7, amended: throttle_scale changes only on a nonzero dpady observation
\* or an r2 / l2 press; dpady > 0 and r2 both give the old value plus 0.05
\* capped at 0.0, dpady < 0 and l2 both give the old value minus 0.05
\* floored at -1.0, rounded to 2 decimals; the result lies in [-1.0, 0.0]
\* whenever the old value did, hence always for a configured throttle scale
\* in [-1.0, 0.0].
C7_ThrottleScale ==
    [][/\ (pc = "apply" /\ pc' = "loop" /\ ThrottleScaleUp /\ ~ThrottleScaleDown) =>
             /\ throttle_scale' <= 0
             /\ throttle_scale' \in Nearest(Min(0, throttle_scale + Step05))
       /\ (pc = "apply" /\ pc' = "loop" /\ ThrottleScaleDown /\ ~ThrottleScaleUp) =>
             /\ throttle_scale' >= -One
             /\ throttle_scale' \in Nearest(Max(-One, throttle_scale - Step05))
       /\ (pc = "apply" /\ pc' = "loop" /\ InNegUnit(throttle_scale))
             => InNegUnit(throttle_scale')
       /\ ~(pc = "apply" /\ (ThrottleScaleUp \/ ThrottleScaleDown))
             => throttle_scale' = throttle_scale]_vars

\* -0.335 - 0.05 rounded to 2 decimals, by the l2 button
C7_Witness ==
    /\ pc = "loop"
    /\ Pressed("l2")
    /\ throttle_scale = -78

\* C8: from a configured max_throttle in [0.0, 1.0] that is a multiple of
\* 0.01, max_throttle stays in [0.0, 1.0] and a multiple of 0.01; after k r1
\* presses and no l1 press it is min(1.0, m + 0.01 k), after k l1 presses and
\* no r1 press it is max(0.0, m - 0.01 k).
C8_MaxThrottle ==
    /\ InUnit(max_throttle)
    /\ IsCenti(max_throttle)
    /\ (n_down = 0 => max_throttle = Min(One, max_throttle0 + n_up * Step01))
    /\ (n_up = 0 => max_throttle = Max(0, max_throttle0 - n_down * Step01))

\* five presses of max-throttle-up from 0.0 give 0.05
C8_Witness ==
    /\ max_throttle0 = 0
    /\ n_up = 5
    /\ n_down = 0
    /\ max_throttle * 20 = One

\* C9: a press of the record toggle ('circle'), as a button observation,
\* changes no controller field when auto_record_on_throttle is enabled, and
\* negates recording and changes nothing else when it is disabled.
C9_RecordToggle ==
    [][(pc = "apply" /\ pc' = "loop" /\ Pressed("circle") /\ axis = None) =>
          /\ UNCHANGED <<angle, throttle, mode, steering_scale, throttle_scale,
                         max_throttle, constant_throttle>>
          /\ (auto_record_on_throttle => recording' = recording)
          /\ (~auto_record_on_throttle => recording' = ~recording)]_vars

C9_Witness ==
    /\ pc = "loop"
    /\ Pressed("circle")
    /\ axis = None
    /\ ~auto_record_on_throttle
    /\ recording
    /\ throttle = 0

\* C10: a button or axis record whose index is beyond the discovered table
\* is dropped and the worker loop keeps running: poll never raises out of
\* the loop.
C10_OutOfRangeDropped == pc # "crashed"


\* C11: once a read has reported the end of the stream, the worker makes no
\* further read: the loop terminates.
C11_EndOfStreamTerminates == [][closed => pos' = pos]_vars

\* C12: a failed connect is followed by the wait and another attempt, never
\* by the end of update() while running is true; no record is read before a
\* connect has succeeded, also when shutdown ends the retrying.
C12_ConnectRetry ==
    /\ js = None => (pos = 0 /\ pc \in {"connect", "retry", "done"})
    /\ pc = "retry" => js = None
    /\ pc = "done" => ~running

\* shutdown was requested during the wait after a failed connect
C12_Witness ==
    /\ pc = "retry"
    /\ ~running
    /\ js = None
    /\ pos = 0


\* the largest number of steps of the worker from a position of update()
\* to its end, once running is false
StepsToEnd(p) ==
    CASE p \in {"done", "crashed"} -> 0
      [] p \in {"connect", "loop"} -> 1
      [] p \in {"retry", "toggle_changes"} -> 2
      [] p = "toggle_throttle" -> 3
      [] p = "buttons" -> 4
      [] p = "axis_changes" -> 5
      [] p = "apply" -> 6
      [] p = "read" -> 7

\* C13: after shutdown() has cleared running the worker completes at most
\* one more read (and so applies at most one more observation), running
\* stays false, and update() returns: the worker always has a next step
\* (a read it blocks in returns) and each step brings it nearer to the end.
C13_CooperativeShutdown ==
    /\ [](stopped_at # NotStopped => (pos <= stopped_at + 1 /\ ~running))
    /\ []((~running /\ StepsToEnd(pc) > 0) => ENABLED Worker)
    /\ [][~running => (~running' /\ StepsToEnd(pc') <= StepsToEnd(pc))]_vars
    /\ [][(~running /\ pc' # pc) => StepsToEnd(pc') < StepsToEnd(pc)]_vars

\* update() has returned after shutdown() and one more read
C13_Witness ==
    /\ pc = "done"
    /\ stopped_at # NotStopped
    /\ pos = stopped_at + 1


\* the loop body handles an observation of the throttle axis alone
ThrottleAxisMoved ==
    /\ pc = "apply"
    /\ pc' = "loop"
    /\ axis = throttle_axis
    /\ button = None

\* C14: an observation of the throttle axis with value v sets throttle to
\* throttle_scale * v * max_throttle, with the scales as they are when it
\* is applied, then applies the auto-record rule, and changes no field
\* other than throttle and recording.
C14_ThrottleAxis ==
    [][ThrottleAxisMoved =>
        /\ throttle' = throttle_scale * axis_val * max_throttle
        /\ recording' = IF auto_record_on_throttle
                        THEN (throttle' # 0 /\ mode' = "user")
                        ELSE recording
        /\ UNCHANGED <<angle, mode, steering_scale, throttle_scale,
                       max_throttle, constant_throttle>>]_vars

\* max_throttle 1.0, throttle_scale -1.0 and axis value 1.0 gave -1.0
C14_Witness ==
    /\ pc = "loop"
    /\ axis = throttle_axis
    /\ button = None
    /\ throttle_scale = -One
    /\ max_throttle = One
    /\ axis_val = AxisDiv
    /\ throttle = -(One * One * AxisDiv)


\* the loop body handles a press of button b, observed alone
ButtonPressed(b) ==
    /\ pc = "apply"
    /\ pc' = "loop"
    /\ Pressed(b)
    /\ axis = None

\* C15: the bindings of the docstring of update(): a press of 'triangle'
\* increases max_throttle, a press of 'cross' decreases it, and a press of
\* 'circle' toggles recording when auto-record is disabled.
C15_DocumentedBindings ==
    [][/\ (ButtonPressed("triangle") /\ max_throttle < One)
            => max_throttle' > max_throttle
       /\ (ButtonPressed("cross") /\ max_throttle > 0)
            => max_throttle' < max_throttle
       /\ (ButtonPressed("circle") /\ ~auto_record_on_throttle)
            => recording' = ~recording]_vars

\* C16: the axis value poll() returns for a record that is not an init
\* record lies in [-1.0, +1.0]: the raw value is at most the divisor in
\* absolute value.
C16_AxisValueInUnit ==
    (pc = "apply" /\ axis # None) => (-AxisDiv <= axis_val /\ axis_val <= AxisDiv)


\* C17: a tuple (angle, throttle, mode, recording) returned by
\* run_threaded() is the public state as the worker left it after a whole
\* loop body, or the initial one; with auto-record enabled every such state
\* obeys the auto-record rule, so no tuple shows mode user and a nonzero
\* throttle with recording false, or a zero throttle with recording true.
C17_SnapshotIsApplied ==
    (snap # NoSnap /\ auto_record_on_throttle) =>
        snap[4] = (snap[2] # 0 /\ snap[3] = "user")


\* the loop body handles the release of a button, observed alone
ButtonReleased ==
    /\ pc = "apply"
    /\ pc' = "loop"
    /\ button # None
    /\ button_state = 0
    /\ axis = None

\* C18: the release of a button, whichever its name, leaves every field of
\* the controller state unchanged.
C18_ReleaseIgnored == [][ButtonReleased => UNCHANGED ctrl]_vars

\* 'triangle' was pressed and then released: constant_throttle is still on
C18_Witness ==
    /\ pc = "loop"
    /\ button = "triangle"
    /\ button_state = 0
    /\ axis = None
    /\ constant_throttle


\* the loop body handles a press of 'r1' (max throttle up) or of 'l1' (max
\* throttle down), observed alone
MaxThrottlePressed ==
    /\ pc = "apply"
    /\ pc' = "loop"
    /\ Pressed("r1") \/ Pressed("l1")
    /\ axis = None

\* C19: a press of 'r1' or 'l1' while constant_throttle is on leaves
\* throttle equal to the new max_throttle and applies the auto-record rule;
\* while constant_throttle is off it changes max_throttle only.
C19_ConstantThrottleFollows ==
    [][MaxThrottlePressed =>
        IF constant_throttle
        THEN /\ throttle' = max_throttle' * Unit * AxisDiv
             /\ recording' = IF auto_record_on_throttle
                             THEN (throttle' # 0 /\ mode' = "user")
                             ELSE recording
        ELSE UNCHANGED <<angle, throttle, mode, recording, steering_scale,
                         throttle_scale, constant_throttle>>]_vars

\* under constant throttle 'l1' lowered max_throttle, throttle followed it
\* and recording is on by the auto-record rule
C19_Witness ==
    /\ pc = "loop"
    /\ Pressed("l1")
    /\ constant_throttle
    /\ auto_record_on_throttle
    /\ max_throttle < max_throttle0
    /\ max_throttle > 0
    /\ throttle = max_throttle * Unit * AxisDiv
    /\ recording


\* C20: with auto_record_on_throttle disabled recording changes only when
\* the loop body handles a press of 'circle'; no other observation and no
\* other step changes it, whatever throttle and mode become.
C20_RecordingFrame ==
    [][(~auto_record_on_throttle /\ recording' # recording) =>
          (pc = "apply" /\ Pressed("circle"))]_vars

\* recording was switched on by 'circle' and a throttle-axis move to zero
\* left it on
C20_Witness ==
    /\ pc = "loop"
    /\ ~auto_record_on_throttle
    /\ axis = throttle_axis
    /\ throttle = 0
    /\ recording

====
